---- MODULE Spec2Model ----
(***************************************************************************)
(* Schema store of the CMS server: SchemaBase.create, SchemaBase.get and   *)
(* SchemaBase.list (src/unnamed/part_003).                                 *)
(*                                                                         *)
(* The environment of the class is the built-in schema files, the plugin   *)
(* schema files, the custom schema records of the document database, the   *)
(* records of the synchronization peer, and the two free identifiers the   *)
(* body of get reads without declaring them: Options (line 55) and query   *)
(* (line 94).  A free identifier resolves to a global binding when the     *)
(* process has one and raises a ReferenceError when it has none; both      *)
(* outcomes are initial states.                                            *)
(*                                                                         *)
(* get is asynchronous and calls itself (line 99), so it is modelled as a  *)
(* stack of activation frames, one action per resumption point.  list and  *)
(* create run to completion in one action each.                            *)
(*                                                                         *)
(* The second part of the module is the media library                      *)
(* (src/src/Server/Entity/Resource/Media.js): MediaSpec is one caller      *)
(* making one call after another, ConcSpec two callers making one call     *)
(* each at the same time.  The third part is the sortable field array of   *)
(* the editor (src/unnamed/part_002) with the specification SortSpec.      *)
(* Each specification leaves the state of the other parts untouched.       *)
(***************************************************************************)
EXTENDS Integers, Sequences, FiniteSets, TLC

(* ------------------------------ bounds -------------------------------- *)

\* Greatest number of nested activations of get that are followed.
MaxDepth == 4

(* ----------------------------- universe ------------------------------- *)

Ids == {"a", "b", "c"}

\* Order in which a glob lists the schema files.
IdOrder == <<"a", "b", "c">>

\* Identifier of a schema that create is asked to add, and the order in
\* which the database returns its documents.
NewId == "n"
DocOrder == IdOrder \o <<NewId>>

\* The project every call is made for, and the absent options.project.
Project == "p1"
Undefined == "undefined"

\* A missing parentSchemaId.
None == "none"

\* Field keys defined by the schema of each identifier.
KeysOf == [i \in Ids |-> CASE i = "a" -> {"k1", "k2"}
                           [] i = "b" -> {"k2", "k3"}
                           [] OTHER   -> {"k1", "k3"}]

EmptyFields == [k \in {} |-> <<"", "">>]

\* The value of a field definition names the tier and the identifier of the
\* document that defines it.
FieldsOf(tier, id) == [k \in KeysOf[id] |-> <<tier, id>>]

ParentShapes ==
    { [i \in Ids |-> CASE i = "a" -> "b" [] i = "b" -> "c" [] OTHER -> None],
      [i \in Ids |-> CASE i = "a" -> "b" [] i = "b" -> "a" [] OTHER -> None] }

TypeShapes ==
    { [i \in Ids |-> CASE i = "a" -> t [] i = "b" -> "field" [] OTHER -> "content"]
        : t \in {"content", "field"} }

\* Name of the typed sub-directory of a schema file.
DirName(tier, type) ==
    IF tier = "plugin"
    THEN (IF type = "content" THEN "Content" ELSE "Field")
    ELSE type

ToLowerCase(s) ==
    CASE s = "Content" -> "content"
      [] s = "Field"   -> "field"
      [] OTHER         -> s

\* A schema document or entity.  class is "Object" for plain data.
Schema(id, type, parent, fields, locked, class) ==
    [id |-> id, type |-> type, parentSchemaId |-> parent, fields |-> fields,
     isLocked |-> locked, class |-> class]

\* null / a deleted array slot.
Null == Schema("<null>", "<null>", None, EmptyFields, FALSE, "<null>")
Hole == Schema("<empty>", "<empty>", None, EmptyFields, FALSE, "<empty>")

\* The promise an un-awaited call of an async function evaluates to.
Promise == Schema("<promise>", "<promise>", None, EmptyFields, FALSE, "Promise")

DefaultOptions ==
    [customOnly |-> FALSE, nativeOnly |-> FALSE, localOnly |-> FALSE,
     withParentFields |-> FALSE, project |-> Undefined]

GetOptions ==
    [customOnly : BOOLEAN, nativeOnly : BOOLEAN, localOnly : BOOLEAN,
     withParentFields : BOOLEAN, project : {Undefined}]

ListOptions ==
    [customOnly : BOOLEAN, nativeOnly : BOOLEAN, localOnly : BOOLEAN,
     withParentFields : {FALSE}, project : {Undefined, Project}]

Classes == {"SchemaBase", "ContentSchema", "FieldSchema"}

NoData == [id |-> None, parentId |-> None, parentSchemaId |-> None]

CreateData ==
    [id : {NewId}, parentId : Ids, parentSchemaId : Ids \cup {None}]

(* ------------------------------ state --------------------------------- *)

VARIABLES
    core,        \* built-in schema files: id -> [dir, json]
    plugin,      \* plugin schema files: id -> [dir, json]
    custom,      \* custom schema records of Project: id -> document
    remote,      \* records of the synchronization peer: id -> document
    Options,     \* the free identifier Options: "bound" or "unbound"
    query,       \* the free identifier query
    stack,       \* activation frames of get, innermost last
    call,        \* the operation in progress or last completed
    ret,         \* outcome of the last completed activation
    consulted,   \* services the current call has asked
    collected,   \* the local list of SchemaBase.list before type filtering
    settings,    \* the mediaDeployer setting of the environment
    records,     \* persisted media records: id -> record
    deployed,    \* files held by the media deployer: <<id, name>> -> content
    temp,        \* the temporary location of generateThumbnail
    proc,        \* the Media call of each caller and its position
    ui           \* the sortable array editor: document, handlers, drag

vars == <<core, plugin, custom, remote, Options, query,
          stack, call, ret, consulted, collected,
          settings, records, deployed, temp, proc, ui>>

\* The state of the schema store and the state of the media library.
schemas == <<core, plugin, custom, remote, Options, query,
             stack, call, ret, consulted, collected>>
media == <<settings, records, deployed, temp, proc>>

env == <<core, plugin, remote, Options, query>>

Pending == [kind |-> "pending", err |-> "", schema |-> Null, list |-> <<>>]
Value(s) == [kind |-> "value", err |-> "", schema |-> s, list |-> <<>>]
ListValue(l) == [kind |-> "value", err |-> "", schema |-> Null, list |-> l]
Throw(e) == [kind |-> "throw", err |-> e, schema |-> Null, list |-> <<>>]

NoCall == [op |-> "none", cls |-> "SchemaBase", id |-> None,
           options |-> DefaultOptions, data |-> NoData]

Frame(id, options) ==
    [id |-> id, options |-> options, pc |-> "start",
     childSchema |-> Null, mergedSchema |-> Null]

(* ------------------------ external collaborators ---------------------- *)

\* FileService.list for a glob naming one identifier, or "*" for all.
FileList(tier, files, name) ==
    LET hit(i) == i \in DOMAIN files /\ (name = "*" \/ name = i)
        ids == SelectSeq(IdOrder, hit)
    IN  [n \in 1..Len(ids) |->
            [root |-> tier, dir |-> files[ids[n]].dir, name |-> ids[n]]]

\* FileService.read followed by JSON.parse.
FileRead(path) ==
    IF path.root = "core" THEN core[path.name].json ELSE plugin[path.name].json

\* DatabaseService.findOne(project, environment + '.schemas', {id}).
DbFindOne(project, id) ==
    IF project = Project /\ id \in DOMAIN custom THEN custom[id] ELSE Null

\* DatabaseService.find(project, environment + '.schemas', {}, {}).
DbFind(project) ==
    LET ids == SelectSeq(DocOrder, LAMBDA i : project = Project /\ i \in DOMAIN custom)
    IN  [n \in 1..Len(ids) |-> custom[ids[n]]]

\* SyncService.getResourceItem(project, environment, 'schemas', id).
SyncGetResourceItem(id) ==
    IF id \in DOMAIN remote THEN remote[id] ELSE Null

SeqIds(list) == {list[n].id : n \in 1..Len(list)}

\* SyncService.mergeResource(project, environment, 'schemas', list): the
\* union of the local list and the peer's records.
SyncMergeResource(list) ==
    LET ids == SelectSeq(IdOrder, LAMBDA i : i \in DOMAIN remote /\ i \notin SeqIds(list))
    IN  list \o [n \in 1..Len(ids) |-> remote[ids[n]]]

\* SchemaBase.merge(child, parent): shallow key-wise merge of the field
\* definitions, the child's definition winning.
merge(child, parent) ==
    [child EXCEPT !.fields =
        [k \in DOMAIN child.fields \cup DOMAIN parent.fields |->
            IF k \in DOMAIN child.fields THEN child.fields[k] ELSE parent.fields[k]]]

\* super.create: the generic resource creation persists the document.
ResourceCreate(cls, data) ==
    Schema(data.id,
           IF cls = "FieldSchema" THEN "field"
           ELSE IF cls = "ContentSchema" THEN "content" ELSE "schema",
           data.parentSchemaId, EmptyFields, FALSE, "Object")

(* --------------------------- media universe --------------------------- *)

\* Every call that names a medium names TheId; OtherId keeps what the
\* initial state gives it and is seen by get and list only.
TheId == "x"
OtherId == "y"
ThirdId == "z"
MediaIds == {TheId, OtherId, ThirdId}
MediaIdOrder == <<TheId, OtherId, ThirdId>>

Filenames == {"a.jpg", "B.svg", "c.txt"}
ThumbnailName == "thumbnail.jpg"

\* Order in which the deployer lists the files of a folder.
NameOrder == <<"B.svg", "a.jpg", "c.txt", ThumbnailName, Undefined>>

\* Base64 payloads: the content deployed before any call, the payload a
\* call uploads, and a thumbnail payload a caller passes explicitly.
OldPayload == "P0"
NewPayload == "P1"
GivenThumbnail == "T"
False == "false"

\* Buffer.from(text, 'base64'), the output of convert, and
\* buffer.toString('base64').
FromBase64(text) ==
    CASE text = "P0" -> "raw0" [] text = "P1" -> "raw1" [] text = "P2" -> "raw2"
      [] OTHER -> "raw?"
Converted(bytes) ==
    CASE bytes = "raw0" -> "jpg0" [] bytes = "raw1" -> "jpg1" [] bytes = "raw2" -> "jpg2"
      [] bytes \in {"jpg0", "jpg1", "jpg2"} -> bytes
      [] OTHER -> "jpg?"
ToBase64(bytes) ==
    CASE bytes = "jpg0" -> "J0" [] bytes = "jpg1" -> "J1" [] bytes = "jpg2" -> "J2"
      [] OTHER -> "J?"

\* UTF-16 code units of the strings that are compared by < in list.
CodeUnits(s) ==
    CASE s = "x"     -> <<120>>
      [] s = "y"     -> <<121>>
      [] s = "z"     -> <<122>>
      [] s = "a.jpg" -> <<97, 46, 106, 112, 103>>
      [] s = "B.svg" -> <<66, 46, 115, 118, 103>>
      [] s = "c.txt" -> <<99, 46, 116, 120, 116>>
      [] s = "Zed"   -> <<90, 101, 100>>
      [] s = "undefined" -> <<117, 110, 100, 101, 102, 105, 110, 101, 100>>
      [] OTHER       -> <<>>

\* A media entity; kind tells a persisted record from an entity that get or
\* list made up from a deployed file, and from null.
MediaEntity(id, filename, name, kind) ==
    [id |-> id, filename |-> filename, name |-> name, kind |-> kind]
NoMedia == MediaEntity("", "", "", "null")

NoOptions == [full |-> Undefined, filename |-> Undefined, thumbnail |-> Undefined]

MPending == [kind |-> "pending", err |-> "", resource |-> NoMedia, list |-> <<>>]
MValue(r) == [kind |-> "value", err |-> "", resource |-> r, list |-> <<>>]
MList(l) == [kind |-> "value", err |-> "", resource |-> NoMedia, list |-> l]
MThrow(e) == [kind |-> "throw", err |-> e, resource |-> NoMedia, list |-> <<>>]

NoFiles == [q \in {} |-> ""]
NoRecords == [i \in {} |-> NoMedia]
CleanTemp == [folder |-> FALSE, file |-> "none"]

\* Values of the mediaDeployer setting.
NoSetting == [present |-> FALSE, alias |-> ""]
SettingWithoutAlias == [present |-> TRUE, alias |-> ""]
SettingWithAlias == [present |-> TRUE, alias |-> "filesystem"]
Settings == {NoSetting, SettingWithoutAlias, SettingWithAlias}

\* The callers of the media library and the caller of sequential use.
Callers == {"c1", "c2"}
Sequential == {"c1"}

\* The payload a caller uploads: the callers upload different bytes.
PayloadOf(p) == IF p \in Sequential THEN NewPayload ELSE "P2"

\* A caller that is not inside a call.  before is the deployment and
\* stored the records at the moment the call was made; done lists the
\* persistence and deployer operations the call has performed.
Idle ==
    [pc |-> "idle", op |-> "none", id |-> None, filename |-> Undefined,
     options |-> NoOptions, this |-> NoMedia, resource |-> NoMedia,
     files |-> <<>>, data |-> "null", thumbnail |-> "null", wrote |-> FALSE,
     after |-> "", before |-> NoFiles, stored |-> NoRecords, done |-> <<>>,
     last |-> "other", out |-> MPending]

\* The array editor before fieldSortableArray is called, with no array.
UiQuiet ==
    ui = [pc |-> "new", array |-> <<>>, dom |-> <<>>, children |-> <<>>,
          mappings |-> <<>>, dragged |-> "null", canSort |-> TRUE,
          onChange |-> [called |-> FALSE, array |-> <<>>]]

MediaQuiet ==
    /\ settings = NoSetting
    /\ records = NoRecords
    /\ deployed = NoFiles
    /\ temp = CleanTemp
    /\ proc = [p \in Callers |-> Idle]

(* ------------------------------- Init --------------------------------- *)

Tiers == {"core", "plugin", "custom", "remote"}

\* Which tiers hold which identifier.
Placements ==
    { m \in [Ids -> SUBSET Tiers] :
        /\ m["b"] \in {{}, {"plugin"}, {"custom"}, {"remote"}}
        /\ m["c"] \in {{}, {"core"}} }

Globals ==
    { <<"unbound", [bound |-> FALSE, withParentFields |-> FALSE]>>,
      <<"bound", [bound |-> FALSE, withParentFields |-> FALSE]>>,
      <<"bound", [bound |-> TRUE, withParentFields |-> FALSE]>>,
      <<"bound", [bound |-> TRUE, withParentFields |-> TRUE]>> }

Held(m, tier) == {i \in Ids : tier \in m[i]}

FileOf(tier, i, typeOf, parentOf) ==
    [dir |-> DirName(tier, typeOf[i]),
     json |-> [parentSchemaId |-> parentOf[i], fields |-> FieldsOf(tier, i)]]

DocOf(tier, i, typeOf, parentOf) ==
    Schema(i, typeOf[i], parentOf[i], FieldsOf(tier, i), FALSE, "Object")

Init ==
    \E m \in Placements, parentOf \in ParentShapes, typeOf \in TypeShapes, g \in Globals :
        /\ core = [i \in Held(m, "core") |-> FileOf("core", i, typeOf, parentOf)]
        /\ plugin = [i \in Held(m, "plugin") |-> FileOf("plugin", i, typeOf, parentOf)]
        /\ custom = [i \in Held(m, "custom") |-> DocOf("custom", i, typeOf, parentOf)]
        /\ remote = [i \in Held(m, "remote") |-> DocOf("remote", i, typeOf, parentOf)]
        /\ Options = g[1]
        /\ query = g[2]
        /\ stack = <<>>
        /\ call = NoCall
        /\ ret = Pending
        /\ consulted = {}
        /\ collected = <<>>
        /\ MediaQuiet
        /\ UiQuiet

(* ------------------------------- get ---------------------------------- *)

NoPath == [root |-> "", dir |-> "", name |-> ""]

\* corePaths[0] || pluginPaths[0]
SchemaPath(corePaths, pluginPaths) ==
    IF Len(corePaths) > 0 THEN corePaths[1]
    ELSE IF Len(pluginPaths) > 0 THEN pluginPaths[1]
    ELSE NoPath

\* The document read from a schema file, completed with id, type, isLocked.
ParseFile(schemaPath, id) ==
    LET data == FileRead(schemaPath)
        parentDirName == schemaPath.dir
    IN  Schema(id, ToLowerCase(parentDirName), data.parentSchemaId, data.fields,
               TRUE, "Object")

\* The three lookups of get; asked names the services that were called.
Lookup(id, options) ==
    LET schemaPath ==
            IF ~options.customOnly
            THEN SchemaPath(FileList("core", core, id), FileList("plugin", plugin, id))
            ELSE NoPath
        fileData == IF schemaPath # NoPath THEN ParseFile(schemaPath, id) ELSE Null
        askDb == fileData = Null /\ ~options.nativeOnly
        dbData == IF askDb THEN DbFindOne(Project, id) ELSE fileData
        askSync == dbData = Null /\ ~options.localOnly /\ ~options.nativeOnly
        data == IF askSync THEN SyncGetResourceItem(id) ELSE dbData
    IN  [data |-> data,
         asked |-> (IF ~options.customOnly THEN {"file"} ELSE {})
                     \cup (IF askDb THEN {"database"} ELSE {})
                     \cup (IF askSync THEN {"sync"} ELSE {})]

\* The entity get returns for a document.
Construct(data) ==
    IF data.type = "field" THEN [data EXCEPT !.class = "FieldSchema"]
    ELSE IF data.type = "content" THEN [data EXCEPT !.class = "ContentSchema"]
    ELSE [data EXCEPT !.class = "SchemaBase"]

Top == stack[Len(stack)]

\* The innermost activation settles with outcome o.
Finish(o) ==
    /\ stack' = SubSeq(stack, 1, Len(stack) - 1)
    /\ ret' = o

\* A caller invokes get(project, environment, id, options).
GetCall ==
    \E id \in Ids, options \in GetOptions :
        /\ call = NoCall
        /\ stack' = <<Frame(id, options)>>
        /\ call' = [op |-> "get", cls |-> "SchemaBase", id |-> id,
                    options |-> options, data |-> NoData]
        /\ ret' = Pending
        /\ consulted' = {}
        /\ collected' = <<>>
        /\ UNCHANGED <<ui, media, env, custom>>

\* An activation runs from its entry to its first nested call or to its end.
GetStart ==
    /\ stack # <<>>
    /\ Top.pc = "start"
    /\ IF Options = "unbound"
       THEN /\ Finish(Throw("ReferenceError"))
            /\ UNCHANGED consulted
       ELSE LET l == Lookup(Top.id, Top.options)
                data == l.data
            IN  /\ consulted' = consulted \cup l.asked
                /\ IF data = Null
                   THEN Finish(Throw("TypeError"))
                   ELSE IF ~query.bound
                   THEN Finish(Throw("ReferenceError"))
                   ELSE IF query.withParentFields /\ data.parentSchemaId # None
                   THEN /\ stack' = [stack EXCEPT ![Len(stack)] =
                                [@ EXCEPT !.pc = "walk", !.childSchema = data,
                                          !.mergedSchema = data]]
                        /\ UNCHANGED ret
                   ELSE Finish(Value(Construct(data)))
    /\ UNCHANGED <<ui, media, env, custom, call, collected>>

\* while(childSchema.parentSchemaId)
WalkContinues(childSchema) == childSchema.parentSchemaId # None

\* One test of the loop condition: the nested get is called, or the loop ends.
GetWalk ==
    /\ stack # <<>>
    /\ Top.pc = "walk"
    /\ IF WalkContinues(Top.childSchema)
       THEN /\ Len(stack) < MaxDepth
            /\ stack' = [stack EXCEPT ![Len(stack)] = [@ EXCEPT !.pc = "await"]]
                          \o <<Frame(Top.childSchema.parentSchemaId, DefaultOptions)>>
            /\ UNCHANGED ret
       ELSE Finish(Value(Construct(Top.mergedSchema)))
    /\ UNCHANGED <<ui, media, env, custom, call, consulted, collected>>

\* The awaited nested get has settled.
GetResume ==
    /\ stack # <<>>
    /\ Top.pc = "await"
    /\ ret.kind # "pending"
    /\ IF ret.kind = "throw"
       THEN Finish(ret)
       ELSE /\ stack' = [stack EXCEPT ![Len(stack)] =
                    [@ EXCEPT !.pc = "walk",
                              !.mergedSchema = merge(@, ret.schema),
                              !.childSchema = ret.schema]]
            /\ ret' = Pending
    /\ UNCHANGED <<ui, media, env, custom, call, consulted, collected>>

(* ------------------------------- list --------------------------------- *)

\* The type the calling class asks for; undefined for SchemaBase itself.
ListType(cls) ==
    IF cls = "ContentSchema" THEN "content"
    ELSE IF cls = "FieldSchema" THEN "field"
    ELSE Undefined

\* The documents of all built-in and plugin schema files.
ListFiles ==
    LET paths == FileList("core", core, "*") \o FileList("plugin", plugin, "*")
    IN  [n \in 1..Len(paths) |-> ParseFile(paths[n], paths[n].name)]

\* The list before type filtering; asked names the services that were called.
Collect(options) ==
    LET native == IF ~options.customOnly THEN ListFiles ELSE <<>>
        local == IF ~options.nativeOnly
                 THEN native \o DbFind(options.project)
                 ELSE native
        list == IF ~options.localOnly THEN SyncMergeResource(local) ELSE local
    IN  [list |-> list,
         asked |-> (IF ~options.customOnly THEN {"file"} ELSE {})
                     \cup (IF ~options.nativeOnly THEN {"database"} ELSE {})
                     \cup (IF ~options.localOnly THEN {"sync"} ELSE {})]

\* The closing loop: delete list[i] for another type, new this(list[i]) else.
FilterByType(list, type, cls) ==
    [i \in 1..Len(list) |->
        IF list[i].type # type THEN Hole ELSE [list[i] EXCEPT !.class = cls]]

List ==
    \E cls \in Classes, options \in ListOptions :
        /\ call = NoCall
        /\ LET c == Collect(options)
           IN  /\ collected' = c.list
               /\ consulted' = c.asked
               /\ ret' = ListValue(FilterByType(c.list, ListType(cls), cls))
        /\ call' = [op |-> "list", cls |-> cls, id |-> None,
                    options |-> options, data |-> NoData]
        /\ UNCHANGED <<ui, media, env, custom, stack>>

(* ------------------------------ create -------------------------------- *)

\* let parent = this.get(...): the call is not awaited, parent is the promise.
ParentOf(data) == Promise

\* !parent
ParentMissing(parent) == parent = Null

ParentMismatch_inverted(parent, cls) == parent.class = cls

\* parent.constructor !== this
ParentMismatch(parent, cls) == parent.class # cls

\* create(user, project, environment, data, options).  The get it starts is
\* left running; it reads the stores and writes nothing.
Create ==
    \E cls \in Classes, data \in CreateData :
        /\ call = NoCall
        /\ LET parent == ParentOf(data)
           IN  IF ParentMissing(parent)
               THEN /\ ret' = Throw("Parent schema could not be found")
                    /\ UNCHANGED custom
               ELSE IF ParentMismatch(parent, cls)
               THEN /\ ret' = Throw("Parent schema does not match schema type")
                    /\ UNCHANGED custom
               ELSE LET doc == ResourceCreate(cls, data)
                    IN  /\ custom' = [i \in DOMAIN custom \cup {doc.id} |->
                                        IF i = doc.id THEN doc ELSE custom[i]]
                        /\ ret' = Value([doc EXCEPT !.class = cls])
        /\ call' = [op |-> "create", cls |-> cls, id |-> data.id,
                    options |-> DefaultOptions, data |-> data]
        /\ consulted' = {}
        /\ collected' = <<>>
        /\ UNCHANGED <<ui, media, env, stack>>

(* --------------------------- specification ---------------------------- *)

\* The call has settled: every activation of it has returned or thrown.
Settled == call # NoCall /\ stack = <<>>

\* The caller takes the outcome of the settled call.
Return ==
    /\ Settled
    /\ call' = NoCall
    /\ ret' = Pending
    /\ consulted' = {}
    /\ collected' = <<>>
    /\ UNCHANGED <<ui, media, env, custom, stack>>

Next ==
    \/ GetCall
    \/ GetStart
    \/ GetWalk
    \/ GetResume
    \/ List
    \/ Create
    \/ Return

Spec == Init /\ [][Next]_vars

(* ------------------------ what the claims speak of -------------------- *)

\* The document tier t holds for id, as a reader of that tier sees it.
TierDoc(t, id) ==
    CASE t = "core"   -> Schema(id, ToLowerCase(core[id].dir), core[id].json.parentSchemaId,
                                core[id].json.fields, TRUE, "Object")
      [] t = "plugin" -> Schema(id, ToLowerCase(plugin[id].dir), plugin[id].json.parentSchemaId,
                                plugin[id].json.fields, TRUE, "Object")
      [] t = "custom" -> custom[id]
      [] OTHER        -> remote[id]

Holds(t, id) ==
    CASE t = "core"   -> id \in DOMAIN core
      [] t = "plugin" -> id \in DOMAIN plugin
      [] t = "custom" -> id \in DOMAIN custom
      [] OTHER        -> id \in DOMAIN remote

Precedence == <<"core", "plugin", "custom", "remote">>

\* The tiers the options allow a call to read.
AllowedTiers(options) ==
    (IF options.customOnly THEN {} ELSE {"core", "plugin"})
      \cup (IF options.nativeOnly THEN {} ELSE {"custom"})
      \cup (IF options.nativeOnly \/ options.localOnly THEN {} ELSE {"remote"})

\* The highest tier among allowed that holds id, or None.
HighestTier(id, allowed) ==
    LET hits == SelectSeq(Precedence, LAMBDA t : t \in allowed /\ Holds(t, id))
    IN  IF Len(hits) = 0 THEN None ELSE hits[1]

Best(id, allowed) ==
    IF HighestTier(id, allowed) = None THEN Null
    ELSE TierDoc(HighestTier(id, allowed), id)

\* Where the parent chain of a document ends: "root", "cycle" or "dangling".
RECURSIVE ChainKind(_, _)
ChainKind(doc, seen) ==
    IF doc.parentSchemaId = None THEN "root"
    ELSE IF doc.parentSchemaId \in seen THEN "cycle"
    ELSE IF Best(doc.parentSchemaId, Tiers) = Null THEN "dangling"
    ELSE ChainKind(Best(doc.parentSchemaId, Tiers), seen \cup {doc.parentSchemaId})

\* Fields of a document and of all its ancestors, the nearest level winning.
RECURSIVE ChainFields(_)
ChainFields(doc) ==
    IF doc.parentSchemaId = None THEN doc.fields
    ELSE merge(doc, [doc EXCEPT !.fields = ChainFields(Best(doc.parentSchemaId, Tiers))]).fields

GetSettled == call.op = "get" /\ stack = <<>>

NoNarrowing(options) ==
    ~options.customOnly /\ ~options.nativeOnly /\ ~options.localOnly

\* The leaf document a get call is to resolve under its options.
Leaf == Best(call.id, AllowedTiers(call.options))

Returned == ret.kind = "value" /\ ret.schema # Null

\* The fields a schema defines itself come from tier t.
OwnFieldsFrom(s, t) ==
    \A k \in DOMAIN s.fields : s.fields[k][2] = s.id => s.fields[k][1] = t

(* ------------------- what holds where get does return ---------------- *)

\* Whatever get returns under no narrowing options is the record of the
\* highest tier holding the identifier.
GetPrecedenceWhenReturned ==
    (GetSettled /\ Returned /\ NoNarrowing(call.options))
        => /\ ret.schema.id = call.id
           /\ OwnFieldsFrom(ret.schema, HighestTier(call.id, Tiers))

\* Where the global query asks for parent fields, whatever get returns for
\* an acyclic chain carries the fields of the whole chain.
WalkMergesChainWhenRun ==
    (GetSettled /\ Returned /\ query.withParentFields
        /\ ChainKind(Leaf, {call.id}) = "root")
        => ret.schema.fields = ChainFields(Leaf)

\* A call whose chain has no cycle never stalls and never nests deeper than
\* the chain is long.
AcyclicWalkSettles ==
    (call.op = "get" /\ stack # <<>>
        /\ (Leaf = Null \/ ChainKind(Leaf, {call.id}) # "cycle"))
        => /\ Len(stack) <= Cardinality(Ids)
           /\ ENABLED Next

(* ------------------------------- claims ------------------------------- *)

\* C1: a settled get with no narrowing options, for an identifier some tier
\* holds, has returned the record of the highest tier holding it, in the
\* order built-in, plugin, custom, synchronization source.
C1_GetReturnsHighestTier ==
    (GetSettled /\ NoNarrowing(call.options) /\ HighestTier(call.id, Tiers) # None)
        => /\ Returned
           /\ ret.schema.id = call.id
           /\ OwnFieldsFrom(ret.schema, HighestTier(call.id, Tiers))

\* C2: for get and for list alike, customOnly lets no built-in or plugin
\* record be returned, nativeOnly lets neither the database nor the
\* synchronization source be consulted, localOnly lets the synchronization
\* source not be consulted.
C2_OptionsNarrowSources ==
    (call.op \in {"get", "list"} /\ stack = <<>>)
        => /\ call.options.customOnly =>
                /\ Returned =>
                      \A t \in {"core", "plugin"} :
                          \A k \in DOMAIN ret.schema.fields :
                              ~(ret.schema.fields[k] = <<t, ret.schema.id>>)
                /\ \A n \in DOMAIN ret.list :
                      \A k \in DOMAIN ret.list[n].fields :
                          ret.list[n].fields[k][1] \notin {"core", "plugin"}
           /\ call.options.nativeOnly => consulted \cap {"database", "sync"} = {}
           /\ call.options.localOnly => "sync" \notin consulted

\* C3: a settled get for an identifier that none of the tiers it may consult
\* holds has returned null; it has not thrown.
C3_GetReturnsNullWhenAbsent ==
    (GetSettled /\ Leaf = Null) => ret = Value(Null)

\* C4: get with withParentFields on a schema whose parent chain is acyclic
\* and wholly resolvable settles by returning a schema, and never nests
\* deeper than the chain is long.
C4_AcyclicWalkReturns ==
    (call.op = "get" /\ call.options.withParentFields
        /\ Leaf # Null /\ ChainKind(Leaf, {call.id}) = "root")
        => /\ Len(stack) <= Cardinality(Ids)
           /\ stack = <<>> => Returned

\* C5: the schema get returns with withParentFields has the fields of the
\* leaf and of every ancestor, the level nearest to the leaf winning.
C5_MergedFieldsAreChainFields ==
    (GetSettled /\ call.options.withParentFields
        /\ Leaf # Null /\ ChainKind(Leaf, {call.id}) = "root")
        => /\ Returned
           /\ ret.schema.fields = ChainFields(Leaf)

\* C6: get with withParentFields on a schema whose parent chain has a cycle
\* fails with a SchemaCycleError: no identifier is resolved twice on the way,
\* and the call settles with that error.
C6_CycleFailsWithSchemaCycleError ==
    (call.op = "get" /\ call.options.withParentFields
        /\ Leaf # Null /\ ChainKind(Leaf, {call.id}) = "cycle")
        => /\ \A m, n \in DOMAIN stack : stack[m].id = stack[n].id => m = n
           /\ stack = <<>> => ret = Throw("SchemaCycleError")

\* C7: get with withParentFields on a schema that declares no parent returns
\* that schema with its field definitions unchanged.
C7_NoParentIsIdentity ==
    (GetSettled /\ call.options.withParentFields
        /\ Leaf # Null /\ Leaf.parentSchemaId = None)
        => /\ Returned
           /\ ret.schema.id = Leaf.id
           /\ ret.schema.fields = Leaf.fields

\* The parent a create names is missing or of another class than the caller.
BadParent(cls, parentId) ==
    \/ Best(parentId, Tiers) = Null
    \/ Construct(Best(parentId, Tiers)).class # cls

\* C8: a create whose parent cannot be found or is of another type fails
\* with an error and persists nothing; whatever a create persists has a
\* resolvable parent of its own type.
C8_CreateKeepsParentInvariant ==
    [][(call.op = "none" /\ call'.op = "create")
         => /\ BadParent(call'.cls, call'.data.parentId)
                => (custom' = custom /\ ret'.kind = "throw")
            /\ custom' # custom
                => /\ custom'[call'.id].parentSchemaId # None
                   /\ ~BadParent(call'.cls, custom'[call'.id].parentSchemaId)]_vars

\* A create naming a parent that no tier holds has failed, nothing persisted.
C8_Witness ==
    /\ call.op = "create"
    /\ Best(call.data.parentId, Tiers) = Null
    /\ ret.kind = "throw"
    /\ NewId \notin DOMAIN custom

\* C9: every entry of the sequence ContentSchema.list or FieldSchema.list
\* returns is a schema of the requested type; there is no entry of another
\* type and no empty slot.
C9_ListHoldsOnlyRequestedType ==
    (call.op = "list" /\ call.cls \in {"ContentSchema", "FieldSchema"})
        => \A n \in DOMAIN ret.list :
              /\ ret.list[n] # Hole
              /\ ret.list[n].type = ListType(call.cls)
              /\ ret.list[n].class = call.cls

\* Number of entries of a list that are the document of tier t for id.
Count(list, t, id) ==
    Cardinality({n \in DOMAIN list : list[n].id = id /\ list[n].fields = FieldsOf(t, id)})

\* C10: before type filtering, list with no narrowing options has collected
\* one record per built-in file, one per plugin file and one per custom
\* record of the given project, an identifier held by several tiers once per
\* tier.
C10_ListCollectsEveryTier ==
    (call.op = "list" /\ NoNarrowing(call.options))
        => \A t \in {"core", "plugin", "custom"} : \A id \in Ids :
              Count(collected, t, id) = IF Holds(t, id) THEN 1 ELSE 0

(* ====================================================================== *)
(* Media library of the CMS server: Media.getDeployer, create, get, list, *)
(* remove, save and generateThumbnail                                     *)
(* (src/src/Server/Entity/Resource/Media.js).                             *)
(*                                                                        *)
(* Every method is asynchronous; each action below is the code between    *)
(* two awaits.  The deployer, the file service, convert and the generic   *)
(* resource persistence are collaborators outside the class; a deployer   *)
(* step, convert and the read-back may fail.                              *)
(* ====================================================================== *)

(* ------------------------ media collaborators ------------------------- *)

\* deployer.getPath(id, name): the path of a file of the folder of id.
getPath(id, name) == <<id, name>>
Basename(path) == path[2]
Dirname(path) == path[1]

InFolder(d, id) == {q \in DOMAIN d : Dirname(q) = id}

\* deployer.removeFolder(getPath(id)), setFile(path, content) and
\* removeFile(path).
removeFolder(d, id) == [q \in DOMAIN d \ InFolder(d, id) |-> d[q]]
setFile(d, path, content) ==
    [q \in DOMAIN d \cup {path} |-> IF q = path THEN content ELSE d[q]]
removeFile(d, path) == [q \in DOMAIN d \ {path} |-> d[q]]

\* deployer.getFolder(getPath(id)): the files of one folder, and
\* deployer.getFolder(getPath(), 2): the files of every folder.
getFolder(d, id) ==
    LET names == SelectSeq(NameOrder, LAMBDA n : getPath(id, n) \in DOMAIN d)
    IN  [k \in 1..Len(names) |-> getPath(id, names[k])]
getFolderAll(d) ==
    getFolder(d, TheId) \o getFolder(d, OtherId) \o getFolder(d, ThirdId)

\* getMIMEType(filename), as the words of the MIME type.
getMIMEType(filename) ==
    CASE filename = "a.jpg" -> <<"image", "/", "jpeg">>
      [] filename = "B.svg" -> <<"image", "/", "svg", "+", "xml">>
      [] OTHER              -> <<"text", "/", "plain">>

\* type.indexOf(word)
IndexOf(type, word) ==
    IF \E n \in 1..Len(type) : type[n] = word
    THEN (CHOOSE n \in 1..Len(type) :
            type[n] = word /\ \A m \in 1..(n - 1) : type[m] # word) - 1
    ELSE -1

\* The generic resource persistence behind super.create, super.get,
\* super.list, super.remove and super.save.
SuperCreate(recs, id, filename) ==
    [i \in DOMAIN recs \cup {id} |->
        IF i = id THEN MediaEntity(id, filename, "", "record") ELSE recs[i]]
SuperGet(recs, id) == IF id \in DOMAIN recs THEN recs[id] ELSE NoMedia
SuperList(recs) ==
    LET ids == SelectSeq(MediaIdOrder, LAMBDA i : i \in DOMAIN recs)
    IN  [k \in 1..Len(ids) |-> recs[ids[k]]]
SuperRemove(recs, id) == [i \in DOMAIN recs \ {id} |-> recs[i]]
SuperSave(recs, this) ==
    [i \in DOMAIN recs \cup {this.id} |->
        IF i = this.id THEN [this EXCEPT !.kind = "record"] ELSE recs[i]]

\* entity.getName(): the display name of a medium.
getName(e) ==
    IF e.name # "" THEN e.name ELSE IF e.filename # "" THEN e.filename ELSE e.id

(* ------------------------- pieces of the code ------------------------- *)

\* getDeployer: null unless the setting exists and has an alias.
NoDeployer == "null"
Deployer == "deployer"
getDeployer_withoutAliasTest(setting) ==
    IF ~setting.present THEN NoDeployer ELSE Deployer
getDeployer(setting) ==
    IF (~setting.present) \/ setting.alias = "" THEN NoDeployer ELSE Deployer

\* generateThumbnail makes no thumbnail of this MIME type.
NoThumbnailOf_withoutSvgTest(type) == IndexOf(type, "image") < 0
NoThumbnailOf(type) == IndexOf(type, "image") < 0 \/ IndexOf(type, "svg") > -1

\* A file that get and list pass over.
IsThumbnail_never(filename) == FALSE
IsThumbnail(filename) == filename = ThumbnailName

\* The loop of get over the files of the folder.
RECURSIVE GetLoop(_, _, _)
GetLoop(resource, files, id) ==
    IF files = <<>> THEN resource
    ELSE LET filename == Basename(Head(files))
         IN  IF IsThumbnail(filename) THEN GetLoop(resource, Tail(files), id)
             ELSE IF resource.kind = "null"
             THEN GetLoop(MediaEntity(id, filename, "", "synthesized"), Tail(files), id)
             ELSE GetLoop(resource, Tail(files), id)

\* resourceMap of list, as its entries in insertion order.
MapIndex(map, id) ==
    IF \E k \in 1..Len(map) : map[k].id = id
    THEN CHOOSE k \in 1..Len(map) : map[k].id = id
    ELSE 0

RECURSIVE MapOfResources(_, _)
MapOfResources(map, resources) ==
    IF resources = <<>> THEN map
    ELSE LET r == Head(resources)
             k == MapIndex(map, r.id)
         IN  MapOfResources(IF k = 0 THEN Append(map, r) ELSE [map EXCEPT ![k] = r],
                            Tail(resources))

\* !resourceMap[id]
NotInMap_always(map, id) == TRUE
NotInMap(map, id) == MapIndex(map, id) = 0

RECURSIVE ListLoop(_, _)
ListLoop(map, files) ==
    IF files = <<>> THEN map
    ELSE LET id == Dirname(Head(files))
             filename == Basename(Head(files))
         IN  IF IsThumbnail(filename) THEN ListLoop(map, Tail(files))
             ELSE LET withId == IF NotInMap(map, id)
                                THEN Append(map, MediaEntity(id, "", "", "synthesized"))
                                ELSE map
                      k == MapIndex(withId, id)
                  IN  ListLoop([withId EXCEPT ![k].filename = filename], Tail(files))

\* a < b on strings: by UTF-16 code units.
RECURSIVE UnitsLess(_, _)
UnitsLess(s, t) ==
    IF t = <<>> THEN FALSE
    ELSE IF s = <<>> THEN TRUE
    ELSE IF Head(s) # Head(t) THEN Head(s) < Head(t)
    ELSE UnitsLess(Tail(s), Tail(t))
StringLess(a, b) == UnitsLess(CodeUnits(a), CodeUnits(b))

\* The comparator of list.
Compare_reversed(a, b) ==
    LET x == getName(a)
        y == getName(b)
    IN  IF x = y THEN 0 ELSE IF StringLess(x, y) THEN 1 ELSE -1
Compare(a, b) ==
    LET x == getName(a)
        y == getName(b)
    IN  IF x = y THEN 0 ELSE IF StringLess(x, y) THEN -1 ELSE 1

\* Array.prototype.sort: a stable sort by the comparator.
RECURSIVE InsertSorted(_, _)
InsertSorted(sorted, e) ==
    IF sorted = <<>> THEN <<e>>
    ELSE IF Compare(e, Head(sorted)) < 0 THEN <<e>> \o sorted
    ELSE <<Head(sorted)>> \o InsertSorted(Tail(sorted), e)

RECURSIVE Sort(_)
Sort(list) ==
    IF list = <<>> THEN <<>>
    ELSE InsertSorted(Sort(SubSeq(list, 1, Len(list) - 1)), list[Len(list)])

(* ----------------------------- media Init ----------------------------- *)

\* What the initial state holds for OtherId.
OtherShapes == {"none", "record", "file", "both"}

InitialRecords(xr, y, z) ==
    [i \in (IF xr = "" THEN {} ELSE {TheId})
           \cup (IF y \in {"record", "both"} THEN {OtherId} ELSE {})
           \cup (IF z THEN {ThirdId} ELSE {}) |->
        CASE i = TheId   -> MediaEntity(i, xr, "", "record")
          [] i = OtherId -> MediaEntity(i, "c.txt", "", "record")
          [] OTHER       -> MediaEntity(i, "a.jpg", "Zed", "record")]

InitialFiles(xf, xt, y) ==
    [q \in {getPath(TheId, f) : f \in xf}
           \cup (IF xt THEN {getPath(TheId, ThumbnailName)} ELSE {})
           \cup (IF y \in {"file", "both"} THEN {getPath(OtherId, "c.txt")} ELSE {}) |->
        IF Basename(q) = ThumbnailName THEN "J0" ELSE OldPayload]

MediaInit ==
    /\ core = <<>> /\ plugin = <<>> /\ custom = <<>> /\ remote = <<>>
    /\ Options = "bound"
    /\ query = [bound |-> TRUE, withParentFields |-> FALSE]
    /\ stack = <<>>
    /\ call = NoCall
    /\ ret = Pending
    /\ consulted = {}
    /\ collected = <<>>
    /\ settings \in Settings
    /\ \E xr \in {"", "a.jpg", "B.svg"}, xf \in SUBSET {"a.jpg", "B.svg"},
          xt \in BOOLEAN, y \in OtherShapes, z \in BOOLEAN :
        /\ records = InitialRecords(xr, y, z)
        /\ deployed = InitialFiles(xf, xt, y)
    /\ temp = CleanTemp
    /\ proc = [p \in Callers |-> Idle]
    /\ UiQuiet

(* ---------------------------- media steps ----------------------------- *)

Goto(p, r) == proc' = [proc EXCEPT ![p] = r]
Settle(p, r, out) == proc' = [proc EXCEPT ![p] = [r EXCEPT !.pc = "done", !.out = out]]
Did(r, step) == [r EXCEPT !.done = Append(@, step)]

NoDeployerError == "No media deployer configured"
DeployerError == "deployer failed"

\* The entity a caller holds for TheId: the record, or else the entity
\* made up from the deployed file.
ThisOf == GetLoop(SuperGet(records, TheId), getFolder(deployed, TheId), TheId)

Begin(p, op) ==
    [Idle EXCEPT !.op = op, !.before = deployed, !.stored = records,
                 !.last = proc[p].last]

(* create, lines 39-64 *)

MediaCreate(p) ==
    /\ proc[p].pc = "idle"
    /\ TheId \notin DOMAIN records
    /\ \E filename \in {"a.jpg", "B.svg"}, named \in Filenames \cup {Undefined} :
        LET r == [Begin(p, "create") EXCEPT
                    !.filename = filename,
                    !.options = [full |-> PayloadOf(p), filename |-> named,
                                 thumbnail |-> Undefined]]
        IN  IF getDeployer(settings) = NoDeployer
            THEN Settle(p, r, MThrow(NoDeployerError))
            ELSE Goto(p, [r EXCEPT !.pc = "create_persist"])
    /\ UNCHANGED <<ui, schemas, settings, records, deployed, temp>>

CreatePersist(p) ==
    /\ proc[p].pc = "create_persist"
    /\ TheId \notin DOMAIN records
    /\ records' = SuperCreate(records, TheId, proc[p].filename)
    /\ Goto(p, [Did(proc[p], "create") EXCEPT
                    !.pc = "create_clear", !.id = TheId,
                    !.resource = records'[TheId]])
    /\ UNCHANGED <<ui, schemas, settings, deployed, temp>>

CreatedCleared_kept(d, id) == d
CreatedCleared(d, id) == removeFolder(d, id)

CreateClear(p) ==
    /\ proc[p].pc = "create_clear"
    /\ \E ok \in BOOLEAN :
        IF ok
        THEN /\ deployed' = CreatedCleared(deployed, proc[p].resource.id)
             /\ Goto(p, [Did(proc[p], "removeFolder") EXCEPT !.pc = "create_write"])
        ELSE /\ Settle(p, proc[p], MThrow(DeployerError))
             /\ UNCHANGED deployed
    /\ UNCHANGED <<ui, schemas, settings, records, temp>>

CreateWrite(p) ==
    /\ proc[p].pc = "create_write"
    /\ \E ok \in BOOLEAN :
        IF ok
        THEN /\ deployed' = setFile(deployed,
                                    getPath(proc[p].resource.id, proc[p].options.filename),
                                    proc[p].options.full)
             /\ Goto(p, [Did(proc[p], "setFile") EXCEPT
                            !.pc = "generate", !.after = "create_thumbnail",
                            !.data = FromBase64(proc[p].options.full)])
        ELSE /\ Settle(p, proc[p], MThrow(DeployerError))
             /\ UNCHANGED deployed
    /\ UNCHANGED <<ui, schemas, settings, records, temp>>

CreateThumbnail(p) ==
    /\ proc[p].pc = "create_thumbnail"
    /\ IF proc[p].thumbnail # "null"
       THEN \E ok \in BOOLEAN :
            IF ok
            THEN /\ deployed' = setFile(deployed,
                                        getPath(proc[p].resource.id, ThumbnailName),
                                        ToBase64(proc[p].thumbnail))
                 /\ Settle(p, Did(proc[p], "setFile"), MValue(proc[p].resource))
            ELSE /\ Settle(p, proc[p], MThrow(DeployerError))
                 /\ UNCHANGED deployed
       ELSE /\ Settle(p, proc[p], MValue(proc[p].resource))
            /\ UNCHANGED deployed
    /\ UNCHANGED <<ui, schemas, settings, records, temp>>

(* generateThumbnail, lines 287-315 *)

GenerateThumbnail(p) ==
    /\ proc[p].pc = "generate"
    /\ LET filename == proc[p].options.filename
       IN  IF filename = Undefined
           THEN Settle(p, proc[p], MThrow("TypeError"))
           ELSE IF NoThumbnailOf(getMIMEType(filename))
           THEN Goto(p, [proc[p] EXCEPT !.pc = proc[p].after, !.thumbnail = "null"])
           ELSE Goto(p, [proc[p] EXCEPT !.pc = "thumb_mkdir"])
    /\ UNCHANGED <<ui, schemas, settings, records, deployed, temp>>

MakeDirectory(p) ==
    /\ proc[p].pc = "thumb_mkdir"
    /\ temp' = [temp EXCEPT !.folder = TRUE]
    /\ Goto(p, [proc[p] EXCEPT !.pc = "thumb_write"])
    /\ UNCHANGED <<ui, schemas, settings, records, deployed>>

WriteTemp(p) ==
    /\ proc[p].pc = "thumb_write"
    /\ IF temp.folder
       THEN /\ temp' = [temp EXCEPT !.file = proc[p].data]
            /\ Goto(p, [proc[p] EXCEPT !.pc = "thumb_exec", !.wrote = TRUE])
       ELSE /\ Settle(p, proc[p], MThrow("write failed"))
            /\ UNCHANGED temp
    /\ UNCHANGED <<ui, schemas, settings, records, deployed>>

Exec(p) ==
    /\ proc[p].pc = "thumb_exec"
    /\ \E ok \in BOOLEAN :
        IF ok /\ temp.file # "none"
        THEN /\ temp' = [temp EXCEPT !.file = Converted(@)]
             /\ Goto(p, [proc[p] EXCEPT !.pc = "thumb_read"])
        ELSE /\ Settle(p, proc[p], MThrow("convert failed"))
             /\ UNCHANGED temp
    /\ UNCHANGED <<ui, schemas, settings, records, deployed>>

ReadTemp(p) ==
    /\ proc[p].pc = "thumb_read"
    /\ \E ok \in BOOLEAN :
        IF ok /\ temp.file # "none"
        THEN Goto(p, [proc[p] EXCEPT !.pc = "thumb_remove", !.data = temp.file])
        ELSE Settle(p, proc[p], MThrow("read failed"))
    /\ UNCHANGED <<ui, schemas, settings, records, deployed, temp>>

RemoveTemp(p) ==
    /\ proc[p].pc = "thumb_remove"
    /\ temp' = CleanTemp
    /\ Goto(p, [proc[p] EXCEPT !.pc = proc[p].after, !.thumbnail = proc[p].data])
    /\ UNCHANGED <<ui, schemas, settings, records, deployed>>

(* get, lines 130-162 *)

MediaGet(p) ==
    /\ proc[p].pc = "idle"
    /\ \E id \in MediaIds :
        Goto(p, [Begin(p, "get") EXCEPT
                    !.pc = "get_record", !.id = id,
                    !.files = IF getDeployer(settings) # NoDeployer
                              THEN getFolder(deployed, id) ELSE <<>>])
    /\ UNCHANGED <<ui, schemas, settings, records, deployed, temp>>

GetRecord(p) ==
    /\ proc[p].pc = "get_record"
    /\ Settle(p, proc[p],
              MValue(GetLoop(SuperGet(records, proc[p].id), proc[p].files, proc[p].id)))
    /\ UNCHANGED <<ui, schemas, settings, records, deployed, temp>>

(* list, lines 172-220 *)

MediaList(p) ==
    /\ proc[p].pc = "idle"
    /\ Goto(p, [Begin(p, "list") EXCEPT
                    !.pc = "list_records",
                    !.files = IF getDeployer(settings) # NoDeployer
                              THEN getFolderAll(deployed) ELSE <<>>])
    /\ UNCHANGED <<ui, schemas, settings, records, deployed, temp>>

ListRecords(p) ==
    /\ proc[p].pc = "list_records"
    /\ LET resourceMap == MapOfResources(<<>>, SuperList(records))
       IN  Settle(p, proc[p], MList(Sort(ListLoop(resourceMap, proc[p].files))))
    /\ UNCHANGED <<ui, schemas, settings, records, deployed, temp>>

(* remove, lines 227-237 *)

MediaRemove(p) ==
    /\ proc[p].pc = "idle"
    /\ ThisOf.kind # "null"
    /\ records' = SuperRemove(records, ThisOf.id)
    /\ Goto(p, [Did(Begin(p, "remove"), "remove") EXCEPT
                    !.pc = "remove_clear", !.id = ThisOf.id, !.this = ThisOf])
    /\ UNCHANGED <<ui, schemas, settings, deployed, temp>>

RemovedCleared_kept(d, id) == d
RemovedCleared(d, id) == removeFolder(d, id)

\* A remove that puts the record back when the folder removal fails.
RemoveClear_rollsBack(p) ==
    /\ proc[p].pc = "remove_clear"
    /\ IF getDeployer(settings) # NoDeployer
       THEN \E ok \in BOOLEAN :
            IF ok
            THEN /\ deployed' = RemovedCleared(deployed, proc[p].this.id)
                 /\ Settle(p, Did(proc[p], "removeFolder"), MValue(NoMedia))
                 /\ UNCHANGED records
            ELSE /\ Settle(p, proc[p], MThrow(DeployerError))
                 /\ records' = proc[p].stored
                 /\ UNCHANGED deployed
       ELSE /\ Settle(p, proc[p], MValue(NoMedia))
            /\ UNCHANGED <<records, deployed>>
    /\ UNCHANGED <<ui, schemas, settings, temp>>

RemoveClear(p) ==
    /\ proc[p].pc = "remove_clear"
    /\ IF getDeployer(settings) # NoDeployer
       THEN \E ok \in BOOLEAN :
            IF ok
            THEN /\ deployed' = RemovedCleared(deployed, proc[p].this.id)
                 /\ Settle(p, Did(proc[p], "removeFolder"), MValue(NoMedia))
            ELSE /\ Settle(p, proc[p], MThrow(DeployerError))
                 /\ UNCHANGED deployed
       ELSE /\ Settle(p, proc[p], MValue(NoMedia))
            /\ UNCHANGED deployed
    /\ UNCHANGED <<ui, schemas, settings, records, temp>>

(* save, lines 244-276 *)

SaveOptions(p) ==
    [full : {Undefined, PayloadOf(p)}, filename : Filenames \cup {Undefined},
     thumbnail : {Undefined, False, GivenThumbnail}]

MediaSave(p) ==
    /\ proc[p].pc = "idle"
    /\ ThisOf.kind # "null"
    /\ \E options \in SaveOptions(p) :
        LET r == [Begin(p, "save") EXCEPT
                    !.id = ThisOf.id, !.this = ThisOf, !.options = options]
        IN  IF getDeployer(settings) = NoDeployer
            THEN Settle(p, r, MThrow(NoDeployerError))
            ELSE IF ThisOf.filename # "" /\ options.full # Undefined
            THEN Goto(p, [r EXCEPT !.pc = "save_clear"])
            ELSE Goto(p, [r EXCEPT !.pc = "save_thumbnail"])
    /\ UNCHANGED <<ui, schemas, settings, records, deployed, temp>>

\* A folder-clear of save that waits until no other call is in progress.
SaveClear_exclusive(p) ==
    /\ proc[p].pc = "save_clear"
    /\ \A q \in Callers \ {p} : proc[q].pc \in {"idle", "done"}
    /\ \E ok \in BOOLEAN :
        IF ok
        THEN /\ deployed' = removeFolder(deployed, proc[p].this.id)
             /\ Goto(p, [Did(proc[p], "removeFolder") EXCEPT !.pc = "save_write"])
        ELSE /\ Settle(p, proc[p], MThrow(DeployerError))
             /\ UNCHANGED deployed
    /\ UNCHANGED <<ui, schemas, settings, records, temp>>

SaveClear(p) ==
    /\ proc[p].pc = "save_clear"
    /\ \E ok \in BOOLEAN :
        IF ok
        THEN /\ deployed' = removeFolder(deployed, proc[p].this.id)
             /\ Goto(p, [Did(proc[p], "removeFolder") EXCEPT !.pc = "save_write"])
        ELSE /\ Settle(p, proc[p], MThrow(DeployerError))
             /\ UNCHANGED deployed
    /\ UNCHANGED <<ui, schemas, settings, records, temp>>

\* A save that writes the record together with the content file.
SaveWrite_persistsFirst(p) ==
    /\ proc[p].pc = "save_write"
    /\ records' = SuperSave(records, proc[p].this)
    /\ \E ok \in BOOLEAN :
        IF ok
        THEN /\ deployed' = setFile(deployed,
                                    getPath(proc[p].this.id, proc[p].options.filename),
                                    proc[p].options.full)
             /\ Goto(p, [Did(proc[p], "setFile") EXCEPT !.pc = "save_thumbnail"])
        ELSE /\ Settle(p, proc[p], MThrow(DeployerError))
             /\ UNCHANGED deployed
    /\ UNCHANGED <<ui, schemas, settings, temp>>

SaveWrite(p) ==
    /\ proc[p].pc = "save_write"
    /\ \E ok \in BOOLEAN :
        IF ok
        THEN /\ deployed' = setFile(deployed,
                                    getPath(proc[p].this.id, proc[p].options.filename),
                                    proc[p].options.full)
             /\ Goto(p, [Did(proc[p], "setFile") EXCEPT !.pc = "save_thumbnail"])
        ELSE /\ Settle(p, proc[p], MThrow(DeployerError))
             /\ UNCHANGED deployed
    /\ UNCHANGED <<ui, schemas, settings, records, temp>>

\* Which branch of lines 259-273 a call takes.
ThumbnailBranch_falseIgnored(options) ==
    IF options.thumbnail # Undefined /\ options.thumbnail # False THEN "given"
    ELSE IF options.full # Undefined /\ options.filename # Undefined THEN "generate"
    ELSE "keep"
ThumbnailBranch(options) ==
    IF options.thumbnail = False THEN "remove"
    ELSE IF options.thumbnail # Undefined THEN "given"
    ELSE IF options.full # Undefined /\ options.filename # Undefined THEN "generate"
    ELSE "keep"

SaveThumbnail(p) ==
    /\ proc[p].pc = "save_thumbnail"
    /\ LET branch == ThumbnailBranch(proc[p].options)
           path == getPath(proc[p].this.id, ThumbnailName)
       IN  CASE branch = "remove" ->
                \E ok \in BOOLEAN :
                    IF ok
                    THEN /\ deployed' = removeFile(deployed, path)
                         /\ Goto(p, [Did(proc[p], "removeFile") EXCEPT !.pc = "save_persist"])
                    ELSE /\ Settle(p, proc[p], MThrow(DeployerError))
                         /\ UNCHANGED deployed
             [] branch = "given" ->
                \E ok \in BOOLEAN :
                    IF ok
                    THEN /\ deployed' = setFile(deployed, path, proc[p].options.thumbnail)
                         /\ Goto(p, [Did(proc[p], "setFile") EXCEPT !.pc = "save_persist"])
                    ELSE /\ Settle(p, proc[p], MThrow(DeployerError))
                         /\ UNCHANGED deployed
             [] branch = "generate" ->
                \* this.generateThumbnail: the class defines generateThumbnail
                \* as a static method only; the instance has one when a
                \* prototype above the class defines it.
                /\ \E inherited \in BOOLEAN :
                    IF inherited
                    THEN Goto(p, [proc[p] EXCEPT
                                    !.pc = "generate", !.after = "save_generated",
                                    !.data = FromBase64(proc[p].options.full)])
                    ELSE Settle(p, proc[p], MThrow("TypeError"))
                /\ UNCHANGED deployed
             [] OTHER ->
                /\ Goto(p, [proc[p] EXCEPT !.pc = "save_persist"])
                /\ UNCHANGED deployed
    /\ UNCHANGED <<ui, schemas, settings, records, temp>>

SaveGenerated(p) ==
    /\ proc[p].pc = "save_generated"
    /\ IF proc[p].thumbnail # "null"
       THEN \E ok \in BOOLEAN :
            IF ok
            THEN /\ deployed' = setFile(deployed,
                                        getPath(proc[p].this.id, ThumbnailName),
                                        ToBase64(proc[p].thumbnail))
                 /\ Goto(p, [Did(proc[p], "setFile") EXCEPT !.pc = "save_persist"])
            ELSE /\ Settle(p, proc[p], MThrow(DeployerError))
                 /\ UNCHANGED deployed
       ELSE /\ Goto(p, [proc[p] EXCEPT !.pc = "save_persist"])
            /\ UNCHANGED deployed
    /\ UNCHANGED <<ui, schemas, settings, records, temp>>

SavePersist(p) ==
    /\ proc[p].pc = "save_persist"
    /\ records' = SuperSave(records, proc[p].this)
    /\ Settle(p, Did(proc[p], "save"), MValue(NoMedia))
    /\ UNCHANGED <<ui, schemas, settings, deployed, temp>>

(* the caller takes the outcome *)

\* What a caller remembers of the call it made last: that it was a remove,
\* and whether the remove cleared the folder as well.
LastOf(r) ==
    IF r.op = "remove"
    THEN (IF r.done = <<"remove", "removeFolder">> THEN "removed and cleared"
          ELSE "removed")
    ELSE "other"

MediaReturn(p) ==
    /\ proc[p].pc = "done"
    /\ Goto(p, [Idle EXCEPT !.last = LastOf(proc[p])])
    /\ UNCHANGED <<ui, schemas, settings, records, deployed, temp>>

MediaNext ==
    \E p \in Sequential :
        \/ MediaCreate(p) \/ CreatePersist(p) \/ CreateClear(p) \/ CreateWrite(p)
        \/ CreateThumbnail(p)
        \/ GenerateThumbnail(p) \/ MakeDirectory(p) \/ WriteTemp(p) \/ Exec(p)
        \/ ReadTemp(p) \/ RemoveTemp(p)
        \/ MediaGet(p) \/ GetRecord(p)
        \/ MediaList(p) \/ ListRecords(p)
        \/ MediaRemove(p) \/ RemoveClear(p)
        \/ MediaSave(p) \/ SaveClear(p) \/ SaveWrite(p) \/ SaveThumbnail(p)
        \/ SaveGenerated(p) \/ SavePersist(p)
        \/ MediaReturn(p)

MediaSpec == MediaInit /\ [][MediaNext]_vars

(* ----------------------- claims about the media ----------------------- *)

Caller == "c1"
Now == proc[Caller]
Finished(op) == Now.pc = "done" /\ Now.op = op
Succeeded(op) == Finished(op) /\ Now.out.kind = "value"

\* The filenames of the universe that name an image other than SVG.
NonSvgImages == {"a.jpg"}

\* The deployed files of id other than the thumbnail, and the folder of id
\* as name -> content.
ContentFiles(d, id) == {q \in InFolder(d, id) : Basename(q) # ThumbnailName}
Folder(d, id) == [n \in {Basename(q) : q \in InFolder(d, id)} |-> d[getPath(id, n)]]
ThumbnailOf(payload) == ToBase64(Converted(FromBase64(payload)))

\* C11: a create or a save made while the environment has no mediaDeployer
\* setting, or one without an alias, ends at once with the no-deployer
\* error, and the records and the deployed files are what they were: no
\* persistence or deployer operation has run.
C11_NoDeployerFailsWithoutEffect ==
    (/\ Now.pc # "idle"
     /\ Now.op \in {"create", "save"}
     /\ settings \in {NoSetting, SettingWithoutAlias})
    => /\ Now.pc = "done"
       /\ Now.out = MThrow(NoDeployerError)
       /\ Now.done = <<>>
       /\ records = Now.stored
       /\ deployed = Now.before

C11_Witness ==
    /\ Finished("create")
    /\ settings = SettingWithoutAlias
    /\ Now.out = MThrow(NoDeployerError)
    /\ InFolder(deployed, TheId) # {}

\* C12: after a successful create the folder of the new identifier holds
\* the uploaded payload under the filename supplied with it, and holds
\* thumbnail.jpg exactly when that filename names an image other than SVG.
C12_CreateDeploysFileAndThumbnail ==
    Succeeded("create") =>
        LET id == Now.out.resource.id
            file == getPath(id, Now.options.filename)
        IN  /\ id \in DOMAIN records
            /\ file \in DOMAIN deployed
            /\ deployed[file] = Now.options.full
            /\ (getPath(id, ThumbnailName) \in DOMAIN deployed
                    <=> Now.options.filename \in NonSvgImages)

C12_Witness ==
    /\ Succeeded("create")
    /\ Now.options.filename = "a.jpg"
    /\ getPath(TheId, ThumbnailName) \in DOMAIN deployed
    /\ getPath(TheId, ThumbnailName) \notin DOMAIN Now.before

\* C13: after a successful create the folder of the new identifier holds
\* nothing but the files this create wrote, whatever it held before: it is
\* the folder a create with the same upload leaves for an unused identifier.
C13_CreateLeavesOnlyItsOwnFiles ==
    Succeeded("create") =>
        LET id == Now.out.resource.id
            name == Now.options.filename
            fresh == IF name \in NonSvgImages
                     THEN [n \in {name, ThumbnailName} |->
                            IF n = name THEN Now.options.full
                            ELSE ThumbnailOf(Now.options.full)]
                     ELSE [n \in {name} |-> Now.options.full]
        IN  Folder(deployed, id) = fresh

C13_Witness ==
    /\ Succeeded("create")
    /\ Now.options.filename = "a.jpg"
    /\ getPath(TheId, "B.svg") \in DOMAIN Now.before
    /\ getPath(TheId, ThumbnailName) \in DOMAIN Now.before

\* C14: get returns the persisted record when there is one; without a
\* record it returns an entity of the identifier, the name of a deployed
\* file other than the thumbnail and nothing else when the deployer holds
\* such a file; it returns null exactly when there is neither a record nor
\* such a file, which includes every case without a deployer.
C14_GetReconcilesRecordAndFiles ==
    Finished("get") =>
        LET id == Now.id
            held == IF settings = SettingWithAlias
                    THEN ContentFiles(deployed, id) ELSE {}
            got == Now.out.resource
        IN  /\ Now.out.kind = "value"
            /\ IF id \in DOMAIN records THEN got = records[id]
               ELSE IF held # {}
               THEN /\ got.kind = "synthesized"
                    /\ got.id = id
                    /\ got.name = ""
                    /\ \E q \in held : got.filename = Basename(q)
               ELSE got = NoMedia

C14_Witness ==
    /\ Finished("get")
    /\ Now.id = TheId
    /\ Now.out.resource.kind = "synthesized"
    /\ getPath(TheId, ThumbnailName) \in DOMAIN deployed

\* C15: list returns one entry for every identifier that has a record or a
\* deployed folder holding a file other than the thumbnail, an entry for
\* no other identifier, and no identifier twice.
C15_ListIsUnionOfRecordsAndFolders ==
    Finished("list") =>
        LET l == Now.out.list
            held == IF settings = SettingWithAlias
                    THEN {i \in MediaIds : ContentFiles(deployed, i) # {}} ELSE {}
        IN  /\ Now.out.kind = "value"
            /\ {l[k].id : k \in 1..Len(l)} = DOMAIN records \cup held
            /\ \A j, k \in 1..Len(l) : l[j].id = l[k].id => j = k

C15_Witness ==
    /\ Finished("list")
    /\ TheId \in DOMAIN records
    /\ ContentFiles(deployed, TheId) # {}
    /\ OtherId \notin DOMAIN records
    /\ \E k \in 1..Len(Now.out.list) : Now.out.list[k].id = OtherId

\* C16: the entries list returns are in non-decreasing order of their
\* display names, compared as strings by code unit, so that an upper-case
\* letter precedes every lower-case letter.
C16_ListIsSortedByName ==
    Finished("list") =>
        LET l == Now.out.list
        IN  \A j, k \in 1..Len(l) :
                j < k => ~UnitsLess(CodeUnits(getName(l[k])), CodeUnits(getName(l[j])))

C16_Witness ==
    /\ Finished("list")
    /\ Len(Now.out.list) = Cardinality(MediaIds)
    /\ Now.out.list[1].id = ThirdId
    /\ Now.out.list[2].id = TheId
    /\ Now.out.list[1].kind = "record"
    /\ Now.out.list[Len(Now.out.list)].kind = "synthesized"

\* C17: a get of an identifier that follows a remove of it returns a
\* resource only when a deployed file other than the thumbnail still
\* exists for it, and then the entity made up from that file; when the
\* remove cleared the folder as well, the get returns null.
C17_GetAfterRemove ==
    (Finished("get") /\ Now.id = TheId /\ Now.last # "other") =>
        LET got == Now.out.resource
        IN  /\ got.kind \in {"null", "synthesized"}
            /\ got.kind = "synthesized" =>
                    /\ settings = SettingWithAlias
                    /\ \E q \in ContentFiles(deployed, TheId) : got.filename = Basename(q)
            /\ Now.last = "removed and cleared" => got = NoMedia

C17_Witness ==
    /\ Finished("get")
    /\ Now.id = TheId
    /\ Now.last = "removed and cleared"
    /\ Now.out = MValue(NoMedia)

C19_SaveRedeploysContent ==
    Succeeded("save") =>
        LET id == Now.this.id
            content(d) == [q \in ContentFiles(d, id) |-> d[q]]
        IN  IF Now.options.full # Undefined
            THEN content(deployed) =
                    [q \in {getPath(id, Now.this.filename)} |-> Now.options.full]
            ELSE content(deployed) = content(Now.before)

\* What the code does instead: the payload is stored under options.filename.
SaveRedeploysUnderOptionsFilename ==
    Succeeded("save") =>
        LET id == Now.this.id
            content(d) == [q \in ContentFiles(d, id) |-> d[q]]
        IN  IF Now.options.full # Undefined /\ Now.options.filename # Undefined
            THEN content(deployed) =
                    [q \in {getPath(id, Now.options.filename)} |-> Now.options.full]
            ELSE Now.options.full = Undefined => content(deployed) = content(Now.before)

\* C20: a generateThumbnail that has written its temporary file has removed
\* the temporary location when the call that made it ends, also when
\* convert or the read-back failed.
C20_TempLocationAlwaysRemoved ==
    (Now.pc = "done" /\ Now.wrote) => temp = CleanTemp

(* ------------------------- concurrent callers ------------------------- *)

\* Two callers, one call each, on the medium TheId of an environment with
\* a deployer.  Nothing orders the steps of the two calls: the class holds
\* no lock, and every await lets the other call run.
ConcInit ==
    /\ core = <<>> /\ plugin = <<>> /\ custom = <<>> /\ remote = <<>>
    /\ Options = "bound"
    /\ query = [bound |-> TRUE, withParentFields |-> FALSE]
    /\ stack = <<>>
    /\ call = NoCall
    /\ ret = Pending
    /\ consulted = {}
    /\ collected = <<>>
    /\ settings = SettingWithAlias
    /\ \E xr \in {"", "a.jpg"} :
        /\ records = InitialRecords(xr, "none", FALSE)
        /\ deployed = InitialFiles({"a.jpg"}, TRUE, "none")
    /\ temp = CleanTemp
    /\ proc = [p \in Callers |-> Idle]
    /\ UiQuiet

ConcNext ==
    \E p \in Callers :
        \/ MediaCreate(p) \/ CreatePersist(p) \/ CreateClear(p) \/ CreateWrite(p)
        \/ CreateThumbnail(p)
        \/ GenerateThumbnail(p) \/ MakeDirectory(p) \/ WriteTemp(p) \/ Exec(p)
        \/ ReadTemp(p) \/ RemoveTemp(p)
        \/ MediaRemove(p) \/ RemoveClear(p)
        \/ MediaSave(p) \/ SaveClear(p) \/ SaveWrite(p) \/ SaveThumbnail(p)
        \/ SaveGenerated(p) \/ SavePersist(p)

ConcSpec == ConcInit /\ [][ConcNext]_vars

\* C21: whenever generateThumbnail hands a thumbnail back to a call, it is
\* the derivative of the bytes that call passed in, and no invocation fails
\* at the write of its temporary file, whatever the other caller does.
C21_ConcurrentThumbnailsDoNotInterfere ==
    \A p \in Callers :
        /\ (proc[p].pc \in {"create_thumbnail", "save_generated"}
                /\ proc[p].thumbnail # "null")
            => proc[p].thumbnail = Converted(FromBase64(proc[p].options.full))
        /\ proc[p].out # MThrow("write failed")

\* A call that has written its content file and has not yet reached the end
\* of its thumbnail step.
Range(seq) == {seq[k] : k \in 1..Len(seq)}
BetweenWrites(p) ==
    /\ proc[p].pc \in {"generate", "thumb_mkdir", "thumb_write", "thumb_exec",
                       "thumb_read", "thumb_remove", "create_thumbnail",
                       "save_thumbnail", "save_generated"}
    /\ "setFile" \in Range(proc[p].done)

\* The folder-clear step of a call, and a call that stands before it.
AtClear(p) == proc[p].pc \in {"create_clear", "save_clear", "remove_clear"}
ClearStep(p) == CreateClear(p) \/ SaveClear(p) \/ RemoveClear(p)

\* C22: nothing excludes the calls on one identifier from each other: while
\* one call stands between its file write and its thumbnail write, the
\* folder-clear of the other call can run.  (C22_Witness is the outcome: both
\* calls return and the folder holds the content file of one call with the
\* thumbnail of the other, which neither call leaves when run alone.)
C22_CallsAreNotMutuallyExclusive ==
    \A p, q \in Callers :
        (p # q /\ BetweenWrites(p) /\ AtClear(q)) => ENABLED ClearStep(q)

C22_Witness ==
    /\ proc["c1"].pc = "done" /\ proc["c1"].op = "save" /\ proc["c1"].out.kind = "value"
    /\ proc["c2"].pc = "done" /\ proc["c2"].op = "save" /\ proc["c2"].out.kind = "value"
    /\ proc["c1"].options = [full |-> NewPayload, filename |-> "a.jpg",
                             thumbnail |-> GivenThumbnail]
    /\ proc["c2"].options = [full |-> PayloadOf("c2"), filename |-> "B.svg",
                             thumbnail |-> False]
    /\ proc["c1"].done = <<"removeFolder", "setFile", "setFile", "save">>
    /\ Folder(deployed, TheId) =
          [n \in {"B.svg", ThumbnailName} |->
              IF n = "B.svg" THEN PayloadOf("c2") ELSE GivenThumbnail]

(* --------------------- further claims about schemas ------------------- *)

\* The parent a create names resolves, with the fields of its ancestors, to
\* a schema of the class create is called on.
GoodParent(cls, parentId) ==
    /\ ~BadParent(cls, parentId)
    /\ ChainKind(Best(parentId, Tiers), {parentId}) = "root"

\* C24: a create on a schema class whose parent identifier resolves to a
\* schema of that class passes both parent checks and persists the new
\* custom schema; it does not fail.
C24_CreateWithGoodParentPersists ==
    (call.op = "create" /\ GoodParent(call.cls, call.data.parentId))
        => /\ ret.kind = "value"
           /\ call.id \in DOMAIN custom

\* C25: a get with withParentFields on a schema with an ancestor that no
\* tier holds settles with a not-found error; it returns no schema.
C25_MissingAncestorFailsWithNotFound ==
    (GetSettled /\ call.options.withParentFields
        /\ Leaf # Null /\ ChainKind(Leaf, {call.id}) = "dangling")
        => ret = Throw("NotFoundError")

\* What the code does where both free identifiers are bound and the walk
\* runs: the activation for the missing ancestor reads the type of null, and
\* the call settles with that TypeError and returns no schema.
MissingAncestorFailsWithTypeError ==
    (GetSettled /\ Options = "bound" /\ query.bound /\ query.withParentFields
        /\ Leaf # Null /\ ChainKind(Leaf, {call.id}) = "dangling")
        => ret = Throw("TypeError")

(* ------------------ order of persistence and deployment --------------- *)

\* The folder a create or save with these options leaves when every step
\* succeeds and an upload is given.
UploadFolder(o) ==
    IF o.filename \in NonSvgImages
    THEN [n \in {o.filename, ThumbnailName} |->
            IF n = o.filename THEN o.full ELSE ThumbnailOf(o.full)]
    ELSE [n \in {o.filename} |-> o.full]

\* C23: in create and in remove the persistence write is the first write of
\* the call, and a failing deployer step ends the call with its error and
\* leaves that write in place: after a failed create the record exists and
\* the deployer has run only the steps before the failing one, so the
\* upload is not completely deployed; after a remove whose folder removal
\* failed the record is gone and the folder is what it was.
C23_PersistenceFirstAndNotRolledBack ==
    /\ (Now.op = "create" /\ Now.done # <<>>) => Head(Now.done) = "create"
    /\ (Now.op = "remove" /\ Now.done # <<>>) => Head(Now.done) = "remove"
    /\ (Finished("create") /\ Now.out = MThrow(DeployerError)) =>
            /\ Now.resource.id \notin DOMAIN Now.stored
            /\ Now.resource.id \in DOMAIN records
            /\ records[Now.resource.id] = Now.resource
            /\ CASE Now.done = <<"create">> -> deployed = Now.before
                 [] Now.done = <<"create", "removeFolder">> ->
                        InFolder(deployed, Now.resource.id) = {}
                 [] Now.done = <<"create", "removeFolder", "setFile">> ->
                        /\ Now.options.filename \in NonSvgImages
                        /\ Folder(deployed, Now.resource.id) =
                              [n \in {Now.options.filename} |-> Now.options.full]
                        /\ Folder(deployed, Now.resource.id) # UploadFolder(Now.options)
                 [] OTHER -> FALSE
    /\ (Finished("remove") /\ Now.out = MThrow(DeployerError)) =>
            /\ Now.this.id \notin DOMAIN records
            /\ Folder(deployed, Now.this.id) = Folder(Now.before, Now.this.id)

C23_Witness ==
    /\ Finished("remove")
    /\ Now.out = MThrow(DeployerError)
    /\ TheId \in DOMAIN Now.stored
    /\ TheId \notin DOMAIN records
    /\ ContentFiles(deployed, TheId) # {}

\* C26: save writes the record as its last step: while the call runs, and
\* after it has failed at clearing the folder, writing the file, removing
\* or writing the thumbnail or generating it, the records are what they
\* were, and what the call changed at the deployer before it failed stays.
C26_SavePersistsLast ==
    Now.op = "save" =>
        LET id == Now.this.id
            failed == Now.pc = "done" /\ Now.out.kind = "throw"
            file == getPath(id, Now.options.filename)
        IN  /\ (Now.pc # "done" \/ failed) =>
                    records = Now.stored /\ "save" \notin Range(Now.done)
            /\ (failed /\ Now.done = <<>>) => deployed = Now.before
            /\ (failed /\ Now.done = <<"removeFolder">>) => InFolder(deployed, id) = {}
            /\ (failed /\ Len(Now.done) > 1) =>
                    /\ ContentFiles(deployed, id) = {file}
                    /\ deployed[file] = Now.options.full

C26_Witness ==
    /\ Finished("save")
    /\ Now.out = MThrow(DeployerError)
    /\ Now.done = <<"removeFolder", "setFile">>
    /\ Now.this.kind = "synthesized"
    /\ getPath(TheId, "a.jpg") \in DOMAIN Now.before
    /\ Folder(deployed, TheId) = [n \in {"B.svg"} |-> NewPayload]

(* ====================================================================== *)
(* Sortable field arrays of the editor: UIService.fieldSortableArray,     *)
(* fieldSortable and sortable (src/unnamed/part_002, lines 152-338).      *)
(*                                                                        *)
(* The children of the value element are laid out from top to bottom in   *)
(* document order, each two units high, so the child at index k has its   *)
(* top at 2 * (k - 1); the cursor of a dragover is at any unit.           *)
(* ====================================================================== *)

\* Number of field elements of the array editor.
FieldCount == 3

\* The children of the value element that have the class editor__field; the
\* value element has one more child, "btn", that has not.
FieldElements == SubSeq(<<"e1", "e2", "e3", "e4", "e5">>, 1, FieldCount)

\* JSON.parse(JSON.stringify(value)) of an array item: undefined has no JSON
\* text and is written as null.
JsonCopy(value) == IF value = Undefined THEN "null" ELSE value

\* Array.from(itemParent.children).filter(... 'editor__field')
FieldChildren(dom) == SelectSeq(dom, LAMBDA x : x # "btn")

\* The array the handler of fieldSortableArray rebuilds: for every field
\* child in document order, the value of the first mapping of that element.
Rebuild_inMappingOrder(dom, mappings) ==
    [k \in 1..Len(mappings) |-> mappings[k].value]
Rebuild(dom, mappings) ==
    LET fields == FieldChildren(dom)
        mapping(element) == SelectSeq(mappings, LAMBDA x : x.element = element)[1]
    IN  [k \in 1..Len(fields) |-> mapping(fields[k]).value]

\* The array is one of the item values v1, v2 and undefined for every field
\* element, or is one item short.
SortInit ==
    /\ core = <<>> /\ plugin = <<>> /\ custom = <<>> /\ remote = <<>>
    /\ Options = "bound"
    /\ query = [bound |-> TRUE, withParentFields |-> FALSE]
    /\ stack = <<>>
    /\ call = NoCall
    /\ ret = Pending
    /\ consulted = {}
    /\ collected = <<>>
    /\ MediaQuiet
    /\ \E n \in {FieldCount - 1, FieldCount} :
       \E array \in [1..n -> {"v1", "v2", Undefined}] :
        ui = [pc |-> "new", array |-> array,
              dom |-> Append(FieldElements, "btn"), children |-> <<>>,
              mappings |-> <<>>, dragged |-> "null", canSort |-> TRUE,
              onChange |-> [called |-> FALSE, array |-> <<>>]]

\* fieldSortableArray(array, field, onChange) on a value element that is not
\* sorting yet: every field child is mapped to the next value shifted from
\* the JSON copy of the array (undefined once the copy is empty), and
\* sortable takes the field children and installs the handlers.
FieldSortableArray ==
    /\ ui.pc = "new"
    /\ LET fields == FieldChildren(ui.dom)
           oldArray == [k \in 1..Len(ui.array) |-> JsonCopy(ui.array[k])]
       IN  ui' = [ui EXCEPT
                    !.pc = "sorting",
                    !.children = fields,
                    !.mappings = [k \in 1..Len(fields) |->
                        [element |-> fields[k],
                         value |-> IF k <= Len(oldArray) THEN oldArray[k]
                                   ELSE Undefined]]]
    /\ UNCHANGED <<schemas, media>>

\* child.ondragstart
DragStart ==
    /\ ui.pc = "sorting"
    /\ \E child \in {ui.children[k] : k \in 1..Len(ui.children)} :
        ui' = [ui EXCEPT !.dragged = child]
    /\ UNCHANGED <<schemas, media>>

\* parentElement.ondragover with the cursor at pageY: the first sibling of
\* children that the cursor has passed takes the dragged child before it
\* (dragging above) or before its next sibling (dragging below), and
\* sorting stops until the timer runs out.
DragOver ==
    /\ ui.pc = "sorting"
    /\ \E pageY \in 0..(2 * Len(ui.dom) + 1) :
        LET dom == ui.dom
            child == ui.dragged
            \* getBoundingClientRect().y - bodyRect.y
            top(x) == 2 * IndexOf(dom, x)
            above(sibling) == pageY < top(sibling) /\ top(child) > top(sibling)
            below(sibling) == pageY > top(sibling) /\ top(child) < top(sibling)
            passed == SelectSeq(ui.children, LAMBDA sibling :
                        sibling # child /\ (above(sibling) \/ below(sibling)))
            \* sibling.nextElementSibling
            nextSibling(sibling) ==
                IF IndexOf(dom, sibling) + 1 = Len(dom) THEN "null"
                ELSE dom[IndexOf(dom, sibling) + 2]
            \* sibling.parentElement.insertBefore(child, ref)
            others == SelectSeq(dom, LAMBDA x : x # child)
            insertBefore(ref) ==
                IF ref = child THEN dom
                ELSE IF ref = "null" THEN Append(others, child)
                ELSE SubSeq(others, 1, IndexOf(others, ref)) \o <<child>>
                        \o SubSeq(others, IndexOf(others, ref) + 1, Len(others))
        IN  IF ~ui.canSort \/ child = "null" \/ pageY < 1 \/ passed = <<>>
            THEN UNCHANGED ui
            ELSE ui' = [ui EXCEPT
                    !.dom = IF above(passed[1]) THEN insertBefore(passed[1])
                            ELSE insertBefore(nextSibling(passed[1])),
                    !.canSort = FALSE]
    /\ UNCHANGED <<schemas, media>>

\* The timer of a move has run out.
SortTimeout ==
    /\ ui.pc = "sorting"
    /\ ~ui.canSort
    /\ ui' = [ui EXCEPT !.canSort = TRUE]
    /\ UNCHANGED <<schemas, media>>

\* child.ondragend and child.ondragcancel: the handler rebuilds the array.
DragEnd ==
    /\ ui.pc = "sorting"
    /\ ui.dragged # "null"
    /\ ui' = [ui EXCEPT !.onChange = [called |-> TRUE,
                                      array |-> Rebuild(ui.dom, ui.mappings)],
                        !.dragged = "null"]
    /\ UNCHANGED <<schemas, media>>

SortNext == FieldSortableArray \/ DragStart \/ DragOver \/ SortTimeout \/ DragEnd

SortSpec == SortInit /\ [][SortNext]_vars

\* The index a field element had when the mappings were made.
OriginalIndex(element) == IndexOf(FieldElements, element) + 1

\* A drag has ended and no other has begun: onChange holds what the handler
\* passed for the document as it is.
DragEnded == ui.onChange.called /\ ui.dragged = "null"

\* C27 as stated: whenever a drag has ended on an array with one value per
\* field element, position k of the array passed to onChange holds the
\* original value of the k-th field child.
C27_OnChangeIsPermutationOfOriginal ==
    (DragEnded /\ Len(ui.array) = FieldCount) =>
        LET fields == FieldChildren(ui.dom)
        IN  /\ Len(ui.onChange.array) = Len(fields)
            /\ \A k \in 1..Len(fields) :
                    ui.onChange.array[k] = ui.array[OriginalIndex(fields[k])]

\* C27 as amended: position k holds the JSON copy of the original value of
\* the k-th field child, so the array passed to onChange is a permutation
\* of the JSON copy of the original array: an undefined item comes back as
\* null, every other value as itself, and none is lost or duplicated.
C27_OnChangeIsPermutationOfJsonCopy ==
    (DragEnded /\ Len(ui.array) = FieldCount) =>
        LET fields == FieldChildren(ui.dom)
        IN  /\ Len(ui.onChange.array) = Len(fields)
            /\ Range(fields) = Range(FieldElements)
            /\ \A j, k \in 1..Len(fields) : fields[j] = fields[k] => j = k
            /\ \A k \in 1..Len(fields) :
                    ui.onChange.array[k] = JsonCopy(ui.array[OriginalIndex(fields[k])])

C27_Witness ==
    /\ DragEnded
    /\ ui.array = <<Undefined, "v1", "v2">>
    /\ FieldChildren(ui.dom) = <<"e2", "e3", "e1">>
    /\ ui.onChange.array = <<"v1", "v2", "null">>

====
